---- MODULE Spec2Model ----
(***************************************************************************)
(* State-machine model of the in-memory shared-state core of the SC        *)
(* repository:                                                             *)
(*   - storage/caching.py   InMemoryLRUCache (LRU + TTL, asyncio lock)     *)
(*   - storage/cache.py     LocalCache (TTL only)                          *)
(*   - sc/services/ku_graph.py and sc/api/graph.py (weighted KU graph)     *)
(*   - sc/api/knowledge.py, sc/services/flowshield.py (request limiter)    *)
(*   - api/routes.py, core/token.py (send_transaction over UserAccount)    *)
(*                                                                         *)
(* Python values are encoded as follows.                                   *)
(*   Optional[int] / Optional[float]:  <<>> is None, <<n>> is the number n *)
(*   a value returned by get:          a string of Values, or None         *)
(*   OrderedDict / dict:               a sequence of records in insertion  *)
(*                                     order (first element = oldest)      *)
(*   float weights:                    integers counting tenths (5 = 0.5)  *)
(*   time.monotonic() / time.time():   the integer variable now            *)
(*   UserAccount.balance:              an integer                          *)
(***************************************************************************)
EXTENDS Integers, Sequences, FiniteSets, TLC

\* ------------------------------------------------------------------------
\* Bounds of the model
\* ------------------------------------------------------------------------
MaxSize == 2

MaxTime == 2

\* the default_ttl handed to the LocalCache constructor
DefaultTtl == 1

Keys == {"k1", "k2", "k3"}

Values == {"v1", "v2"}

\* ttl arguments of set: None (omitted) or 1 second
Ttls == {<<>>, <<1>>}

None == "None"

VARIABLES
    impl,        \* which cache class this process constructed: "lru" | "local"
    now,         \* the clock read by time.monotonic() / time.time()
    max_size,    \* InMemoryLRUCache.max_size
    cache,       \* InMemoryLRUCache.cache (OrderedDict), oldest first
    lastUse,     \* history: rank of each stored key's latest set / successful get
    local_cache, \* LocalCache._cache : key -> value
    local_ttl,   \* LocalCache._ttl   : key -> absolute expiry instant
    default_ttl, \* LocalCache.default_ttl
    out,         \* the last call made and what it returned
    ku_links,    \* ku_graph.ku_links : source id -> list of (target id, weight)
    lastWeight,  \* history: weight of the last successful add_link of each pair
    held,        \* what a caller of get_all_links / get_links_from holds
    reply,       \* the last graph call or HTTP request and its result
    rate_tracker,\* knowledge.rate_tracker : client ip -> list of request timestamps
    clock,       \* the clock read by time.time() in the knowledge API
    verdict,     \* the last rate-limited request and how its check ended
    task,        \* concurrent requests: each task's program point and locals
    lock,        \* InMemoryLRUCache._lock : the task holding it, or "free"
    running,     \* the coroutine the event loop is executing, or "none"
    hist,        \* history: the calls the concurrent tasks have completed
    user_accounts, \* routes.user_accounts : user id -> UserAccount.balance
    transfers    \* history: the number of /transaction/send requests received

cacheVars == <<impl, now, max_size, cache, lastUse, local_cache, local_ttl, default_ttl, out>>

graphVars == <<ku_links, lastWeight, held, reply>>

limiterVars == <<rate_tracker, clock, verdict>>

taskVars == <<task, lock, running, hist>>

accountVars == <<user_accounts, transfers>>

vars == <<cacheVars, graphVars, limiterVars, taskVars, accountVars>>

\* ------------------------------------------------------------------------
\* OrderedDict helpers
\* ------------------------------------------------------------------------
KeysOf(c) == {c[i].key : i \in 1..Len(c)}

HasKey(c, k) == k \in KeysOf(c)

Entry(c, k) == c[CHOOSE i \in 1..Len(c) : c[i].key = k]

\* del d[k]
DelKey(c, k) == SelectSeq(c, LAMBDA e : e.key # k)

\* OrderedDict.move_to_end(k)
MoveToEnd(c, k) == Append(DelKey(c, k), Entry(c, k))

\* OrderedDict.popitem(last=False)
PopFirst(c) == Tail(c)

\* ------------------------------------------------------------------------
\* InMemoryLRUCache
\* ------------------------------------------------------------------------
\* entry["ttl"] is not None and entry["expires_at"] < time.monotonic()
\* an expiry test without the "ttl is not None" guard, None read as past
IsExpired_NoTtlGuard(e, t) == e.expires_at = <<>> \/ e.expires_at[1] < t

IsExpired(e, t) == e.ttl # <<>> /\ e.expires_at[1] < t

\* get that serves a stored entry without looking at its expiry
LruGetResult_IgnoresExpiry(c, k, t) == IF ~HasKey(c, k) THEN None ELSE Entry(c, k).value

LruGetResult(c, k, t) ==
    IF ~HasKey(c, k) THEN None
    ELSE IF IsExpired(Entry(c, k), t) THEN None
    ELSE Entry(c, k).value

\* get that reports an expired entry absent but leaves it stored
LruGetCache_KeepsExpired(c, k, t) ==
    IF ~HasKey(c, k) THEN c
    ELSE IF IsExpired(Entry(c, k), t) THEN c
    ELSE MoveToEnd(c, k)

\* get that does not refresh the recency of the entry it reads
LruGetCache_NoMoveToEnd(c, k, t) ==
    IF ~HasKey(c, k) THEN c
    ELSE IF IsExpired(Entry(c, k), t) THEN DelKey(c, k)
    ELSE c

LruGetCache(c, k, t) ==
    IF ~HasKey(c, k) THEN c
    ELSE IF IsExpired(Entry(c, k), t) THEN DelKey(c, k)
    ELSE MoveToEnd(c, k)

\* set that tests the capacity with >= max_size + 1 entries allowed
LruSetCache_OffByOne(c, k, v, ttl, t, m) ==
    LET expires_at == IF ttl # <<>> THEN <<t + ttl[1]>> ELSE <<>>
        c1 == IF HasKey(c, k) THEN DelKey(c, k) ELSE c
        c2 == Append(c1, [key |-> k, value |-> v, ttl |-> ttl, expires_at |-> expires_at])
        c3 == MoveToEnd(c2, k)
    IN  IF Len(c3) > m + 1 THEN PopFirst(c3) ELSE c3

\* set that overwrites a stored key in place, keeping its old position
LruSetCache_InPlace(c, k, v, ttl, t, m) ==
    LET expires_at == IF ttl # <<>> THEN <<t + ttl[1]>> ELSE <<>>
        e  == [key |-> k, value |-> v, ttl |-> ttl, expires_at |-> expires_at]
        c2 == IF HasKey(c, k) THEN [i \in 1..Len(c) |-> IF c[i].key = k THEN e ELSE c[i]]
              ELSE Append(c, e)
    IN  IF Len(c2) > m THEN PopFirst(c2) ELSE c2

\* set that enforces max_size with popitem(last=True)
LruSetCache_PopsLast(c, k, v, ttl, t, m) ==
    LET expires_at == IF ttl # <<>> THEN <<t + ttl[1]>> ELSE <<>>
        c1 == IF HasKey(c, k) THEN DelKey(c, k) ELSE c
        c2 == Append(c1, [key |-> k, value |-> v, ttl |-> ttl, expires_at |-> expires_at])
        c3 == MoveToEnd(c2, k)
    IN  IF Len(c3) > m THEN SubSeq(c3, 1, Len(c3) - 1) ELSE c3

\* set that makes room by dropping an expired entry when there is one
LruSetCache_DropsExpiredFirst(c, k, v, ttl, t, m) ==
    LET expires_at == IF ttl # <<>> THEN <<t + ttl[1]>> ELSE <<>>
        c1 == IF HasKey(c, k) THEN DelKey(c, k) ELSE c
        c2 == Append(c1, [key |-> k, value |-> v, ttl |-> ttl, expires_at |-> expires_at])
        c3 == MoveToEnd(c2, k)
        dead == {i \in 1..Len(c3) : IsExpired(c3[i], t)}
    IN  IF Len(c3) > m
        THEN IF dead # {}
             THEN DelKey(c3, c3[CHOOSE i \in dead : \A j \in dead : i <= j].key)
             ELSE PopFirst(c3)
        ELSE c3

\* set that keeps the ttl and the expiry of the entry it overwrites
LruSetCache_KeepsOldExpiry(c, k, v, ttl, t, m) ==
    LET expires_at == IF ttl # <<>> THEN <<t + ttl[1]>> ELSE <<>>
        e  == IF HasKey(c, k)
              THEN [key |-> k, value |-> v, ttl |-> Entry(c, k).ttl, expires_at |-> Entry(c, k).expires_at]
              ELSE [key |-> k, value |-> v, ttl |-> ttl, expires_at |-> expires_at]
        c1 == IF HasKey(c, k) THEN DelKey(c, k) ELSE c
        c3 == Append(c1, e)
    IN  IF Len(c3) > m THEN PopFirst(c3) ELSE c3

LruSetCache(c, k, v, ttl, t, m) ==
    LET expires_at == IF ttl # <<>> THEN <<t + ttl[1]>> ELSE <<>>
        c1 == IF HasKey(c, k) THEN DelKey(c, k) ELSE c
        c2 == Append(c1, [key |-> k, value |-> v, ttl |-> ttl, expires_at |-> expires_at])
        c3 == MoveToEnd(c2, k)
    IN  IF Len(c3) > m THEN PopFirst(c3) ELSE c3

LruDeleteCache(c, k) == IF HasKey(c, k) THEN DelKey(c, k) ELSE c

\* delete has no return statement
LruDeleteResult(c, k) == None

LruClearCache(c) == << >>

LruSizeResult(c) == Len(c)

\* ------------------------------------------------------------------------
\* History of accesses, kept beside the cache: lastUse[k] is 0 for a key that
\* is not stored, and otherwise the rank of the instant of k's most recent
\* set or successful get among the stored keys (1 = longest ago). The
\* actions bind each intermediate value once (\E x \in {e}) before they
\* rank it.
\* ------------------------------------------------------------------------
MaxRank(lu) == Cardinality({j \in Keys : lu[j] # 0})

Touched(lu, k) == [j \in Keys |-> IF j = k THEN MaxRank(lu) + 1 ELSE lu[j]]

Stored(lu, S) == [j \in Keys |-> IF j \in S THEN lu[j] ELSE 0]

Ranked(lu) == [j \in Keys |-> IF lu[j] = 0 THEN 0 ELSE Cardinality({i \in Keys : lu[i] # 0 /\ lu[i] <= lu[j]})]

\* What the caller saw of its last call: the operation and its arguments, the
\* clock at the call, the value returned and the keys the call removed.
Call(op, k, v, ttl, t, ret, rm) ==
    [op |-> op, key |-> k, value |-> v, ttl |-> ttl, at |-> t, ret |-> ret, removed |-> rm]

\* The same for InMemoryLRUCache.set, with one field of history: the key
\* was stored when set was called.
SetCall(k, v, ttl, t, rm, replaced) ==
    [op |-> "set", key |-> k, value |-> v, ttl |-> ttl, at |-> t, ret |-> None, removed |-> rm,
     replaced |-> replaced]

NoCall == Call("init", None, None, <<>>, 0, None, {})

\* State of the caches after construction.
CacheStart ==
    /\ now = 0
    /\ max_size = MaxSize
    /\ cache = << >>
    /\ lastUse = [j \in Keys |-> 0]
    /\ local_cache = << >>
    /\ local_ttl = << >>
    /\ default_ttl = DefaultTtl
    /\ out = NoCall

\* State of the knowledge API module after import: no client seen yet.
\* The last rate-limited request: the client, the clock at the request, the
\* count get_request_count_for_ip returned, how many timestamps it pruned,
\* the branch taken and the exception that ended the limiter part (or None).
Verdict(ip, t, count, pruned, result, raised) ==
    [ip |-> ip, at |-> t, count |-> count, pruned |-> pruned, result |-> result, raised |-> raised]

NoVerdict == Verdict(None, 0, 0, 0, "init", None)

LimiterStart ==
    /\ rate_tracker = << >>
    /\ clock = 0
    /\ verdict = NoVerdict

\* The concurrent requests served by one process.
Tasks == {"t1", "t2"}

Idle == [pc |-> "idle"]

\* user_accounts as routes.py builds it: user1 with 100.0, user2 with 50.0
InitialBalanceUser1 == 100

InitialBalanceUser2 == 50

Users == {"user1", "user2"}

AccountStart ==
    /\ user_accounts = [u \in Users |-> IF u = "user1" THEN InitialBalanceUser1 ELSE InitialBalanceUser2]
    /\ transfers = 0

TaskStart ==
    /\ task = [t \in Tasks |-> Idle]
    /\ lock = "free"
    /\ running = "none"
    /\ hist = << >>

LruUnchanged == UNCHANGED <<impl, max_size, local_cache, local_ttl, default_ttl, graphVars, limiterVars, accountVars, taskVars>>

Get(k) ==
    /\ impl = "lru"
    /\ cache' = LruGetCache(cache, k, now)
    /\ LET r == LruGetResult(cache, k, now)
       IN  /\ out' = Call("get", k, None, <<>>, now, r, KeysOf(cache) \ KeysOf(cache'))
           /\ \E touched \in {IF r # None THEN Touched(lastUse, k) ELSE lastUse} :
              \E stored \in {Stored(touched, KeysOf(cache'))} : lastUse' = Ranked(stored)
    /\ UNCHANGED now
    /\ LruUnchanged

Set(k, v, ttl) ==
    /\ impl = "lru"
    /\ cache' = LruSetCache(cache, k, v, ttl, now, max_size)
    /\ out' = SetCall(k, v, ttl, now, (KeysOf(cache) \cup {k}) \ KeysOf(cache'), HasKey(cache, k))
    /\ \E touched \in {Touched(lastUse, k)} :
         \E stored \in {Stored(touched, KeysOf(cache'))} : lastUse' = Ranked(stored)
    /\ UNCHANGED now
    /\ LruUnchanged

Delete(k) ==
    /\ impl = "lru"
    /\ cache' = LruDeleteCache(cache, k)
    /\ out' = Call("delete", k, None, <<>>, now, LruDeleteResult(cache, k), KeysOf(cache) \ KeysOf(cache'))
    /\ \E stored \in {Stored(lastUse, KeysOf(cache'))} : lastUse' = Ranked(stored)
    /\ UNCHANGED now
    /\ LruUnchanged

Clear ==
    /\ impl = "lru"
    /\ cache' = LruClearCache(cache)
    /\ out' = Call("clear", None, None, <<>>, now, None, KeysOf(cache) \ KeysOf(cache'))
    /\ \E stored \in {Stored(lastUse, KeysOf(cache'))} : lastUse' = Ranked(stored)
    /\ UNCHANGED now
    /\ LruUnchanged

Size ==
    /\ impl = "lru"
    /\ out' = Call("size", None, None, <<>>, now, LruSizeResult(cache), {})
    /\ UNCHANGED <<cache, lastUse, now>>
    /\ LruUnchanged

\* ------------------------------------------------------------------------
\* LocalCache: two plain dicts, modelled as functions on the stored keys
\* ------------------------------------------------------------------------
DictDel(d, k) == [j \in (DOMAIN d) \ {k} |-> d[j]]

DictPut(d, k, x) == [j \in (DOMAIN d) \cup {k} |-> IF j = k THEN x ELSE d[j]]

\* dict.get(k, dflt)
DictGet(d, k, dflt) == IF k \in DOMAIN d THEN d[k] ELSE dflt

\* time.time() > self._ttl.get(key, 0)
LocalExpired_Never(tt, k, t) == FALSE

LocalExpired(tt, k, t) == t > DictGet(tt, k, 0)

LocalDeleteCache(c, k) == IF k \in DOMAIN c THEN DictDel(c, k) ELSE c

LocalDeleteTtl(c, tt, k) == IF k \in DOMAIN c /\ k \in DOMAIN tt THEN DictDel(tt, k) ELSE tt

\* A Python bool as it is returned to the caller.
PyBool(b) == IF b THEN "True" ELSE "False"

LocalDeleteResult_AlwaysTrue(c, k) == PyBool(TRUE)

LocalDeleteResult(c, k) == PyBool(k \in DOMAIN c)

LocalGetResult(c, tt, k, t) ==
    IF k \notin DOMAIN c THEN None
    ELSE IF LocalExpired(tt, k, t) THEN None
    ELSE c[k]

LocalGetCache(c, tt, k, t) ==
    IF k \notin DOMAIN c THEN c
    ELSE IF LocalExpired(tt, k, t) THEN LocalDeleteCache(c, k)
    ELSE c

LocalGetTtl(c, tt, k, t) ==
    IF k \notin DOMAIN c THEN tt
    ELSE IF LocalExpired(tt, k, t) THEN LocalDeleteTtl(c, tt, k)
    ELSE tt

LocalSetCache(c, k, v) == DictPut(c, k, v)

LocalSetTtl_NoDefault(tt, k, ttl, t, dflt) ==
    LET current_ttl == IF ttl # <<>> THEN ttl[1] ELSE 0
    IN  DictPut(tt, k, t + current_ttl)

LocalSetTtl(tt, k, ttl, t, dflt) ==
    LET current_ttl == IF ttl # <<>> THEN ttl[1] ELSE dflt
    IN  DictPut(tt, k, t + current_ttl)

LocalUnchanged == UNCHANGED <<impl, max_size, cache, lastUse, default_ttl, graphVars, limiterVars, accountVars, taskVars>>

LocalGet(k) ==
    /\ impl = "local"
    /\ local_cache' = LocalGetCache(local_cache, local_ttl, k, now)
    /\ local_ttl' = LocalGetTtl(local_cache, local_ttl, k, now)
    /\ out' = Call("get", k, None, <<>>, now, LocalGetResult(local_cache, local_ttl, k, now),
                   (DOMAIN local_cache) \ (DOMAIN local_cache'))
    /\ UNCHANGED now
    /\ LocalUnchanged

LocalSet(k, v, ttl) ==
    /\ impl = "local"
    /\ local_cache' = LocalSetCache(local_cache, k, v)
    /\ local_ttl' = LocalSetTtl(local_ttl, k, ttl, now, default_ttl)
    /\ out' = Call("set", k, v, ttl, now, None, {})
    /\ UNCHANGED now
    /\ LocalUnchanged

LocalDelete(k) ==
    /\ impl = "local"
    /\ local_cache' = LocalDeleteCache(local_cache, k)
    /\ local_ttl' = LocalDeleteTtl(local_cache, local_ttl, k)
    /\ out' = Call("delete", k, None, <<>>, now, LocalDeleteResult(local_cache, k),
                   (DOMAIN local_cache) \ (DOMAIN local_cache'))
    /\ UNCHANGED now
    /\ LocalUnchanged

LocalClear ==
    /\ impl = "local"
    /\ local_cache' = << >>
    /\ local_ttl' = << >>
    /\ out' = Call("clear", None, None, <<>>, now, None, (DOMAIN local_cache) \ (DOMAIN local_cache'))
    /\ UNCHANGED now
    /\ LocalUnchanged

\* __contains__: self.get(key) is not None
LocalContains(k) ==
    /\ impl = "local"
    /\ local_cache' = LocalGetCache(local_cache, local_ttl, k, now)
    /\ local_ttl' = LocalGetTtl(local_cache, local_ttl, k, now)
    /\ out' = Call("contains", k, None, <<>>, now, PyBool(LocalGetResult(local_cache, local_ttl, k, now) # None),
                   (DOMAIN local_cache) \ (DOMAIN local_cache'))
    /\ UNCHANGED now
    /\ LocalUnchanged

\* The clock advances between calls.
Tick ==
    /\ now < MaxTime
    /\ now' = now + 1
    /\ UNCHANGED <<impl, max_size, cache, lastUse, local_cache, local_ttl, default_ttl, out>>
    /\ UNCHANGED <<graphVars, limiterVars, accountVars, taskVars>>


\* ------------------------------------------------------------------------
\* ku_graph: the module-level dict ku_links and its three functions
\* ------------------------------------------------------------------------
Ids == {"a", "b", "c"}

\* weights in tenths: -0.1, 0.0, 1.0, 1.1
Weights == {-1, 0, 10, 11}

\* cap on the number of distinct pairs the model links
MaxLinks == 2

Sources(g) == {g[i].from : i \in 1..Len(g)}

SourceIndex(g, f) == CHOOSE i \in 1..Len(g) : g[i].from = f

\* dict.get(ku_id): <<>> is None, <<l>> is the list l
DictLookup(g, f) == IF f \in Sources(g) THEN <<g[SourceIndex(g, f)].links>> ELSE <<>>

\* 0.0 <= weight <= 1.0
WeightInRange_Exclusive(w) == 0 < w /\ w < 10

WeightInRange(w) == 0 <= w /\ w <= 10

AddLinkResult(g, f, t, w) == WeightInRange(w)

\* add_link that appends without looking for an existing link to the target
AddLinkGraph_AlwaysAppends(g, f, t, w) ==
    IF ~WeightInRange(w) THEN g
    ELSE LET g1 == IF f \notin Sources(g) THEN Append(g, [from |-> f, links |-> << >>]) ELSE g
             i  == SourceIndex(g1, f)
         IN  [g1 EXCEPT ![i].links = Append(@, [to |-> t, weight |-> w])]

\* add_link that creates the source entry before it validates the weight
AddLinkGraph_EntryBeforeCheck(g, f, t, w) ==
    LET g1 == IF f \notin Sources(g) THEN Append(g, [from |-> f, links |-> << >>]) ELSE g
        i  == SourceIndex(g1, f)
        l  == g1[i].links
        hit == {n \in 1..Len(l) : l[n].to = t}
    IN  IF ~WeightInRange(w) THEN g1
        ELSE IF hit # {}
             THEN [g1 EXCEPT ![i].links[CHOOSE n \in hit : \A n2 \in hit : n <= n2] = [to |-> t, weight |-> w]]
             ELSE [g1 EXCEPT ![i].links = Append(@, [to |-> t, weight |-> w])]

\* add_link that, for an existing link, drops it and appends the new tuple
AddLinkGraph_UpdateMovesToEnd(g, f, t, w) ==
    IF ~WeightInRange(w) THEN g
    ELSE LET g1 == IF f \notin Sources(g) THEN Append(g, [from |-> f, links |-> << >>]) ELSE g
             i  == SourceIndex(g1, f)
         IN  [g1 EXCEPT ![i].links =
                 Append(SelectSeq(@, LAMBDA e : e.to # t), [to |-> t, weight |-> w])]

\* add_link that, for a new target, starts the source's list afresh
AddLinkGraph_ReplacesList(g, f, t, w) ==
    IF ~WeightInRange(w) THEN g
    ELSE LET g1 == IF f \notin Sources(g) THEN Append(g, [from |-> f, links |-> << >>]) ELSE g
             i  == SourceIndex(g1, f)
             l  == g1[i].links
             hit == {n \in 1..Len(l) : l[n].to = t}
         IN  IF hit # {}
             THEN [g1 EXCEPT ![i].links[CHOOSE n \in hit : \A n2 \in hit : n <= n2] = [to |-> t, weight |-> w]]
             ELSE [g1 EXCEPT ![i].links = <<[to |-> t, weight |-> w]>>]

AddLinkGraph(g, f, t, w) ==
    IF ~WeightInRange(w) THEN g
    ELSE LET g1 == IF f \notin Sources(g) THEN Append(g, [from |-> f, links |-> << >>]) ELSE g
             i  == SourceIndex(g1, f)
             l  == g1[i].links
             \* the loop with break: the first index whose target is to_ku_id
             hit == {n \in 1..Len(l) : l[n].to = t}
         IN  IF hit # {}
             THEN [g1 EXCEPT ![i].links[CHOOSE n \in hit : \A n2 \in hit : n <= n2] = [to |-> t, weight |-> w]]
             ELSE [g1 EXCEPT ![i].links = Append(@, [to |-> t, weight |-> w])]

\* the line add_link prints
AddLinkMessage(g, f, t, w) ==
    IF ~WeightInRange(w) THEN "Error"
    ELSE IF f \in Sources(g) /\ \E n \in 1..Len(g[SourceIndex(g, f)].links) : g[SourceIndex(g, f)].links[n].to = t
         THEN "Updated"
         ELSE "Added"

\* get_links_from: ku_links.get(ku_id), the stored list itself or None
GetLinksFrom(g, id) == DictLookup(g, id)

\* A value handed to a caller: either a reference to the live ku_links
\* object (ref = TRUE) or a value of its own.
Handle(what, isRef, val) == [what |-> what, ref |-> isRef, val |-> val]

NoHandle == Handle("none", FALSE, << >>)

\* get_all_links: return ku_links
GetAllLinks(g) == Handle("get_all_links", TRUE, << >>)

\* What the holder of handle h reads through it when the graph is g.
Deref(h, g) == IF h.ref THEN g ELSE h.val

\* History: the weight of the last successful add_link of each ordered pair.
Recorded(lw, f, t, w, ok) == IF ok THEN [lw EXCEPT ![<<f, t>>] = <<w>>] ELSE lw

\* The last call: its arguments, the status it ended with (True / False as
\* 1 / 0 for a function, the HTTP status for a handler), the line it printed
\* and the list it returned.
Reply(op, f, t, w, status, msg, body) ==
    [op |-> op, from |-> f, to |-> t, weight |-> w, status |-> status, msg |-> msg, body |-> body]

NoReply == Reply("init", None, None, 0, 0, None, << >>)

GraphStart ==
    /\ ku_links = << >>
    /\ lastWeight = [pr \in Ids \X Ids |-> << >>]
    /\ held = NoHandle
    /\ reply = NoReply

\* the model links at most MaxLinks distinct pairs: a call that would link
\* one more is not made
WithinCap(f, t, w) ==
    \/ ~(0 <= w /\ w <= 10)
    \/ lastWeight[<<f, t>>] # << >>
    \/ Cardinality({pr \in Ids \X Ids : lastWeight[pr] # << >>}) < MaxLinks

\* a direct call add_link(f, t, w); status 1 is True, 0 is False
AddLinkCall(f, t, w) ==
    /\ WithinCap(f, t, w)
    /\ ku_links' = AddLinkGraph(ku_links, f, t, w)
    /\ LET ok == AddLinkResult(ku_links, f, t, w)
       IN  /\ reply' = Reply("add_link", f, t, w, IF ok THEN 1 ELSE 0, AddLinkMessage(ku_links, f, t, w), << >>)
           /\ lastWeight' = Recorded(lastWeight, f, t, w, ok)
    /\ UNCHANGED held
    /\ UNCHANGED <<cacheVars, limiterVars, accountVars, taskVars>>

\* a direct call get_links_from(id)
GetLinksFromCall(id) ==
    /\ reply' = Reply("get_links_from", id, None, 0, 1, None, GetLinksFrom(ku_links, id))
    /\ UNCHANGED <<ku_links, lastWeight, held>>
    /\ UNCHANGED <<cacheVars, limiterVars, accountVars, taskVars>>

\* a direct call get_all_links(); the caller keeps what it was given
GetAllLinksCall ==
    /\ held' = GetAllLinks(ku_links)
    /\ reply' = Reply("get_all_links", None, None, 0, 1, None, << >>)
    /\ UNCHANGED <<ku_links, lastWeight>>
    /\ UNCHANGED <<cacheVars, limiterVars, accountVars, taskVars>>

InitGraph ==
    /\ impl = "lru"
    /\ CacheStart
    /\ GraphStart
    /\ LimiterStart
    /\ TaskStart
    /\ AccountStart

NextGraph ==
    \/ \E f \in Ids, t \in Ids, w \in Weights : AddLinkCall(f, t, w)
    \/ \E id \in Ids : GetLinksFromCall(id)
    \/ GetAllLinksCall

\* In-process callers of the ku_graph functions.
SpecGraph == InitGraph /\ [][NextGraph]_vars

\* a caller empties the dict it was given by get_all_links: d.clear()
CallerClears ==
    /\ held.what = "get_all_links"
    /\ Deref(held, ku_links) # << >>
    /\ IF held.ref
       THEN ku_links' = << >> /\ UNCHANGED held
       ELSE held' = [held EXCEPT !.val = << >>] /\ UNCHANGED ku_links
    /\ reply' = Reply("caller_clear", None, None, 0, 1, None, << >>)
    /\ UNCHANGED lastWeight
    /\ UNCHANGED <<cacheVars, limiterVars, accountVars, taskVars>>

NextGraphAlias ==
    \/ \E f \in Ids, t \in Ids, w \in Weights : AddLinkCall(f, t, w)
    \/ \E id \in Ids : GetLinksFromCall(id)
    \/ GetAllLinksCall
    \/ CallerClears

\* In-process callers that also write to what get_all_links gave them.
SpecGraphAlias == InitGraph /\ [][NextGraphAlias]_vars

\* ------------------------------------------------------------------------
\* sc/api/graph.py: the HTTP handlers in front of ku_graph
\* ------------------------------------------------------------------------
\* LinkRequest.weight: Field(..., ge=0.0, le=1.0)
LinkRequestValid(w) == 0 <= w /\ w <= 10

IsSelfLoop_Never(f, t) == FALSE

\* link_request.from_ku_id == link_request.to_ku_id
IsSelfLoop(f, t) == f = t

\* the status link_knowledge_units answers with
LinkStatus(g, f, t, w) ==
    IF ~LinkRequestValid(w) THEN 422
    ELSE IF IsSelfLoop(f, t) THEN 400
    ELSE IF ~AddLinkResult(g, f, t, w) THEN 400
    ELSE 201

\* ku_links after link_knowledge_units
LinkGraph(g, f, t, w) ==
    IF ~LinkRequestValid(w) THEN g
    ELSE IF IsSelfLoop(f, t) THEN g
    ELSE AddLinkGraph(g, f, t, w)

\* get_outgoing_links that iterates the result of get_links_from unchecked
OutgoingLinksStatus_NoNoneCheck(g, id) == IF GetLinksFrom(g, id) = << >> THEN 500 ELSE 200

\* the status get_outgoing_links answers with
OutgoingLinksStatus(g, id) == 200

\* the "links" list get_outgoing_links answers with
OutgoingLinksBody(g, id) ==
    LET links == GetLinksFrom(g, id)
    IN  IF links = << >> THEN << >> ELSE links[1]

LinkKnowledgeUnits(f, t, w) ==
    /\ WithinCap(f, t, w)
    /\ ku_links' = LinkGraph(ku_links, f, t, w)
    /\ LET status == LinkStatus(ku_links, f, t, w)
       IN  /\ reply' = Reply("link", f, t, w, status, None, << >>)
           /\ lastWeight' = Recorded(lastWeight, f, t, w, status = 201)
    /\ UNCHANGED held
    /\ UNCHANGED <<cacheVars, limiterVars, accountVars, taskVars>>

GetOutgoingLinks(id) ==
    /\ reply' = Reply("links", id, None, 0, OutgoingLinksStatus(ku_links, id), None,
                      IF OutgoingLinksStatus(ku_links, id) = 200 THEN OutgoingLinksBody(ku_links, id) ELSE << >>)
    /\ UNCHANGED <<ku_links, lastWeight, held>>
    /\ UNCHANGED <<cacheVars, limiterVars, accountVars, taskVars>>

\* get_all_graph_links: the response body is the serialised dict
GetAllGraphLinks ==
    /\ reply' = Reply("all_links", None, None, 0, 200, None, ku_links)
    /\ UNCHANGED <<ku_links, lastWeight, held>>
    /\ UNCHANGED <<cacheVars, limiterVars, accountVars, taskVars>>

NextGraphApi ==
    \/ \E f \in Ids, t \in Ids, w \in Weights : LinkKnowledgeUnits(f, t, w)
    \/ \E id \in Ids : GetOutgoingLinks(id)
    \/ GetAllGraphLinks

\* Clients of the Graph API.
SpecGraphApi == InitGraph /\ [][NextGraphApi]_vars

\* ------------------------------------------------------------------------
\* Knowledge API: sliding-window request limiter (sc/api/knowledge.py,
\* sc/services/flowshield.py)
\*
\* Timestamps are whole seconds. The source allows 100 requests in a window
\* of 60 seconds; the model keeps the comparison and scales both numbers
\* down so that every case of the window is reached.
\* ------------------------------------------------------------------------
MAX_REQUESTS_PER_WINDOW == 3

REQUEST_WINDOW_SECONDS == 4

\* defined in sc/api/knowledge.py for this endpoint (50 in the source) and
\* passed to nothing
MAX_REQUESTS_IN_WINDOW_API == 2

\* the clock stops here
MaxClock == 5

\* the model stores at most this many timestamps over all clients before a
\* request
MaxEvents == 5

Ips == {"ip1", "ip2"}

\* rate_tracker[ip] on a defaultdict(list): a missing key reads as []
TrackerGet(rt, ip) == IF ip \in DOMAIN rt THEN rt[ip] ELSE << >>

\* current_time - t < REQUEST_WINDOW_SECONDS
InWindow_Inclusive(t, current_time) == current_time - t <= REQUEST_WINDOW_SECONDS

InWindow(t, current_time) == current_time - t < REQUEST_WINDOW_SECONDS

Recent_KeepsAll(events, current_time) == events

Recent(events, current_time) == SelectSeq(events, LAMBDA t : InWindow(t, current_time))

\* get_request_count_for_ip: the pruned list is stored back, its length returned
GetRequestCountTracker(rt, ip, current_time) == DictPut(rt, ip, Recent(TrackerGet(rt, ip), current_time))

GetRequestCountForIp_AllClients(rt, ip, current_time) ==
    LET counted == GetRequestCountTracker(rt, ip, current_time)
        RECURSIVE Sum(_)
        Sum(S) == IF S = {} THEN 0
                  ELSE LET i == CHOOSE i \in S : TRUE IN Len(counted[i]) + Sum(S \ {i})
    IN  Sum(DOMAIN counted)

GetRequestCountForIp(rt, ip, current_time) == Len(GetRequestCountTracker(rt, ip, current_time)[ip])

\* record_request_for_ip
RecordRequestForIp(rt, ip, t) == DictPut(rt, ip, Append(TrackerGet(rt, ip), t))

\* flowshield.is_under_attack
IsUnderAttack_AtLeast(ip, request_count) == request_count >= MAX_REQUESTS_PER_WINDOW

IsUnderAttack(ip, request_count) == request_count > MAX_REQUESTS_PER_WINDOW

\* names bound in the module namespace of sc/api/knowledge.py
KnowledgeGlobals ==
    {"knowledge_units_db", "rate_tracker", "REQUEST_WINDOW_SECONDS",
     "MAX_REQUESTS_IN_WINDOW_API", "is_under_attack", "generate_ku_from_prompt",
     "HTTPException", "time", "defaultdict"}

\* the deny branch builds the detail text of HTTPException(429) from
\* MAX_REQUESTS_PER_WINDOW and REQUEST_WINDOW_SECONDS before it raises
DenyRaises ==
    IF {"MAX_REQUESTS_PER_WINDOW", "REQUEST_WINDOW_SECONDS"} \subseteq KnowledgeGlobals
    THEN "HTTPException(429)"
    ELSE "NameError"

\* rate_tracker after the whole limiter part of create_knowledge_unit
CreateTracker_DeniedNotRecorded(rt, ip, t) ==
    LET counted == GetRequestCountTracker(rt, ip, t)
    IN  IF IsUnderAttack(ip, GetRequestCountForIp(rt, ip, t) + 1)
        THEN counted
        ELSE RecordRequestForIp(counted, ip, t)

\* a limiter whose pruning pass runs over every client's list
CreateTracker_PrunesEveryClient(rt, ip, t) ==
    LET counted == [j \in (DOMAIN rt) \cup {ip} |-> Recent(TrackerGet(rt, j), t)]
    IN  RecordRequestForIp(counted, ip, t)

CreateTracker(rt, ip, t) == RecordRequestForIp(GetRequestCountTracker(rt, ip, t), ip, t)

StoredEvents(rt) ==
    LET RECURSIVE Sum(_)
        Sum(S) == IF S = {} THEN 0
                  ELSE LET i == CHOOSE i \in S : TRUE IN Len(rt[i]) + Sum(S \ {i})
    IN  Sum(DOMAIN rt)

LimiterUnchanged == UNCHANGED <<cacheVars, graphVars, accountVars, taskVars>>

\* POST /api/knowledge/units, up to the point where the limiter has decided
CreateKnowledgeUnit(client_ip) ==
    /\ StoredEvents(rate_tracker) < MaxEvents
    /\ LET current_request_count == GetRequestCountForIp(rate_tracker, client_ip, clock)
           denied == IsUnderAttack(client_ip, current_request_count + 1)
       IN  /\ rate_tracker' = CreateTracker(rate_tracker, client_ip, clock)
           /\ verdict' = Verdict(client_ip, clock, current_request_count,
                                 Len(TrackerGet(rate_tracker, client_ip)) - current_request_count,
                                 IF denied THEN "deny" ELSE "admit",
                                 IF denied THEN DenyRaises ELSE None)
    /\ UNCHANGED clock
    /\ LimiterUnchanged

\* time.time() advances between requests
ClockTick ==
    /\ clock < MaxClock
    /\ clock' = clock + 1
    /\ UNCHANGED <<rate_tracker, verdict>>
    /\ LimiterUnchanged

InitLimiter ==
    /\ impl = "lru"
    /\ CacheStart
    /\ GraphStart
    /\ LimiterStart
    /\ TaskStart
    /\ AccountStart

NextLimiter ==
    \/ \E ip \in Ips : CreateKnowledgeUnit(ip)
    \/ ClockTick

\* Clients posting to the knowledge API one after another.
SpecLimiter == InitLimiter /\ [][NextLimiter]_vars

\* ------------------------------------------------------------------------
\* InMemoryLRUCache under concurrent tasks
\*
\* Every method is "async with self._lock: <body>". A task calls a method,
\* waits for the lock, runs the body and releases the lock. The body of set
\* is split where the new entry is stored but the size is not yet enforced.
\* Any other task may take a step between two steps of a task, which covers
\* every schedule of the event loop. Entries are stored without a ttl and
\* the clock stands still.
\* ------------------------------------------------------------------------
TaskRec(pc, op, k, v, ret, want) ==
    [pc |-> pc, op |-> op, key |-> k, value |-> v, ret |-> ret, want |-> want]

\* asyncio.Lock.acquire returns only when no task holds the lock
LockFree_Always(l) == TRUE

LockFree(l) == l = "free"

\* set, up to and including move_to_end
LruSetInsert(c, k, v, ttl, t) ==
    LET expires_at == IF ttl # <<>> THEN <<t + ttl[1]>> ELSE <<>>
        c1 == IF HasKey(c, k) THEN DelKey(c, k) ELSE c
        c2 == Append(c1, [key |-> k, value |-> v, ttl |-> ttl, expires_at |-> expires_at])
    IN  MoveToEnd(c2, k)

\* set, from "if len(self.cache) > self.max_size"
LruSetEvict(c, m) == IF Len(c) > m THEN PopFirst(c) ELSE c

\* the cache after the first step of the body of a method
BodyCache(c, r, t) ==
    CASE r.op = "set"    -> LruSetInsert(c, r.key, r.value, <<>>, t)
      [] r.op = "get"    -> LruGetCache(c, r.key, t)
      [] r.op = "delete" -> LruDeleteCache(c, r.key)
      [] r.op = "clear"  -> LruClearCache(c)
      [] r.op = "size"   -> c

\* the cache after a whole method run with no other task in between
MethodCache(c, r, t, m) ==
    CASE r.op = "set"    -> LruSetCache(c, r.key, r.value, <<>>, t, m)
      [] r.op = "get"    -> LruGetCache(c, r.key, t)
      [] r.op = "delete" -> LruDeleteCache(c, r.key)
      [] r.op = "clear"  -> LruClearCache(c)
      [] r.op = "size"   -> c

\* what a method returns
MethodResult(c, r, t) ==
    CASE r.op = "set"    -> None
      [] r.op = "get"    -> LruGetResult(c, r.key, t)
      [] r.op = "delete" -> LruDeleteResult(c, r.key)
      [] r.op = "clear"  -> None
      [] r.op = "size"   -> LruSizeResult(c)

CacheTaskUnchanged ==
    UNCHANGED <<impl, now, max_size, lastUse, local_cache, local_ttl, default_ttl, out,
                graphVars, limiterVars, accountVars, running>>

\* a task calls a method and reaches "async with self._lock"
CacheCall(t, op, k, v) ==
    /\ task[t].pc = "idle"
    /\ task' = [task EXCEPT ![t] = TaskRec("acquire", op, k, v, None, None)]
    /\ UNCHANGED <<cache, lock, hist>>
    /\ CacheTaskUnchanged

\* the task gets the lock
CacheAcquire(t) ==
    /\ task[t].pc = "acquire"
    /\ LockFree(lock)
    /\ lock' = t
    /\ task' = [task EXCEPT ![t].pc = "body"]
    /\ UNCHANGED <<cache, hist>>
    /\ CacheTaskUnchanged

\* the body, for set up to the size check; hist is the cache as it
\* would be had the methods run one after another in this order
CacheBody(t) ==
    /\ task[t].pc = "body"
    /\ cache' = BodyCache(cache, task[t], now)
    /\ hist' = MethodCache(hist, task[t], now, max_size)
    /\ task' = [task EXCEPT ![t].pc = IF task[t].op = "set" THEN "evict" ELSE "release",
                            ![t].ret = MethodResult(cache, task[t], now),
                            ![t].want = MethodResult(hist, task[t], now)]
    /\ UNCHANGED lock
    /\ CacheTaskUnchanged

\* set enforces max_size
CacheEvict(t) ==
    /\ task[t].pc = "evict"
    /\ cache' = LruSetEvict(cache, max_size)
    /\ task' = [task EXCEPT ![t].pc = "release"]
    /\ UNCHANGED <<lock, hist>>
    /\ CacheTaskUnchanged

\* leaving the "async with" block releases the lock; the method returns
CacheRelease(t) ==
    /\ task[t].pc = "release"
    /\ lock' = "free"
    /\ task' = [task EXCEPT ![t] = Idle]
    /\ UNCHANGED <<cache, hist>>
    /\ CacheTaskUnchanged

InitCacheTasks ==
    /\ impl = "lru"
    /\ CacheStart
    /\ GraphStart
    /\ LimiterStart
    /\ TaskStart
    /\ AccountStart

NextCacheTasks ==
    \/ \E t \in Tasks, k \in Keys, v \in Values : CacheCall(t, "set", k, v)
    \/ \E t \in Tasks, k \in Keys : CacheCall(t, "get", k, None)
    \/ \E t \in Tasks, k \in Keys : CacheCall(t, "delete", k, None)
    \/ \E t \in Tasks : CacheCall(t, "clear", None, None)
    \/ \E t \in Tasks : CacheCall(t, "size", None, None)
    \/ \E t \in Tasks : CacheAcquire(t)
    \/ \E t \in Tasks : CacheBody(t)
    \/ \E t \in Tasks : CacheEvict(t)
    \/ \E t \in Tasks : CacheRelease(t)

\* Concurrent tasks sharing one InMemoryLRUCache.
SpecCacheTasks == InitCacheTasks /\ [][NextCacheTasks]_vars

\* ------------------------------------------------------------------------
\* ku_graph.add_link under concurrent requests
\*
\* add_link takes no lock. Its callers are coroutines of one event loop
\* (async def link_knowledge_units), and the event loop leaves a coroutine
\* only at an await. The body is split statement by statement; after each
\* statement the coroutine keeps the event loop unless it yields there.
\* ------------------------------------------------------------------------
\* the pairs the concurrent requests link: two share a source, two a node
TaskPairs == {<<"a", "b">>, <<"a", "c">>, <<"b", "a">>}

\* neither link_knowledge_units nor add_link contains an await
Yields_Everywhere(pc) == TRUE

Yields_BeforeStore(pc) == pc = "store"

Yields(pc) == FALSE

\* who has the event loop after a task reached program point pc
Handover(t, pc) == IF pc = "idle" \/ Yields(pc) THEN "none" ELSE t

CanRun(t) == running \in {"none", t}

LinkRec(pc, f, to, w, idx) == [pc |-> pc, from |-> f, to |-> to, weight |-> w, idx |-> idx]

\* ku_links[from_ku_id] = []
AssignEmpty(g, f) ==
    IF f \in Sources(g)
    THEN [g EXCEPT ![SourceIndex(g, f)].links = << >>]
    ELSE Append(g, [from |-> f, links |-> << >>])

\* the loop with break: the first index whose target is to_ku_id, 0 if none
\* (existing_link_index, counted from 1)
ExistingLinkIndex(g, f, to) ==
    LET l == g[SourceIndex(g, f)].links
        hit == {n \in 1..Len(l) : l[n].to = to}
    IN  IF hit = {} THEN 0 ELSE CHOOSE n \in hit : \A n2 \in hit : n <= n2

\* the assignment or the append that ends add_link
WriteLink(g, f, to, w, idx) ==
    LET i == SourceIndex(g, f)
    IN  IF idx # 0
        THEN [g EXCEPT ![i].links[idx] = [to |-> to, weight |-> w]]
        ELSE [g EXCEPT ![i].links = Append(@, [to |-> to, weight |-> w])]

GraphTaskUnchanged == UNCHANGED <<cacheVars, limiterVars, accountVars, held, reply, lock, hist>>

\* a request arrives and its coroutine is scheduled
LinkRequestArrives(t, f, to, w) ==
    /\ task[t].pc = "idle"
    /\ task' = [task EXCEPT ![t] = LinkRec("start", f, to, w, 0)]
    /\ UNCHANGED <<ku_links, lastWeight, running>>
    /\ GraphTaskUnchanged

\* the weight check and "if from_ku_id not in ku_links"
AddLinkCheck(t) ==
    /\ task[t].pc = "start"
    /\ CanRun(t)
    /\ LET r == task[t]
           pc == IF ~WeightInRange(r.weight) THEN "idle"
                 ELSE IF r.from \notin Sources(ku_links) THEN "create"
                 ELSE "scan"
       IN  /\ task' = [task EXCEPT ![t] = IF pc = "idle" THEN Idle ELSE [r EXCEPT !.pc = pc]]
           /\ running' = Handover(t, pc)
    /\ UNCHANGED <<ku_links, lastWeight>>
    /\ GraphTaskUnchanged

\* ku_links[from_ku_id] = []
AddLinkCreate(t) ==
    /\ task[t].pc = "create"
    /\ CanRun(t)
    /\ ku_links' = AssignEmpty(ku_links, task[t].from)
    /\ task' = [task EXCEPT ![t].pc = "scan"]
    /\ running' = Handover(t, "scan")
    /\ UNCHANGED lastWeight
    /\ GraphTaskUnchanged

\* the loop that looks for the target
AddLinkScan(t) ==
    /\ task[t].pc = "scan"
    /\ CanRun(t)
    /\ task' = [task EXCEPT ![t].pc = "write",
                            ![t].idx = ExistingLinkIndex(ku_links, task[t].from, task[t].to)]
    /\ running' = Handover(t, "write")
    /\ UNCHANGED <<ku_links, lastWeight>>
    /\ GraphTaskUnchanged

\* update or append, return True
AddLinkWrite(t) ==
    /\ task[t].pc = "write"
    /\ CanRun(t)
    /\ LET r == task[t]
       IN  /\ ku_links' = WriteLink(ku_links, r.from, r.to, r.weight, r.idx)
           /\ lastWeight' = Recorded(lastWeight, r.from, r.to, r.weight, TRUE)
    /\ task' = [task EXCEPT ![t] = Idle]
    /\ running' = Handover(t, "idle")
    /\ GraphTaskUnchanged

NextGraphTasks ==
    \/ \E t \in Tasks, pr \in TaskPairs, w \in Weights : LinkRequestArrives(t, pr[1], pr[2], w)
    \/ \E t \in Tasks : AddLinkCheck(t)
    \/ \E t \in Tasks : AddLinkCreate(t)
    \/ \E t \in Tasks : AddLinkScan(t)
    \/ \E t \in Tasks : AddLinkWrite(t)

\* Concurrent requests linking knowledge units.
SpecGraphTasks == InitGraph /\ [][NextGraphTasks]_vars

\* ------------------------------------------------------------------------
\* The request limiter under concurrent requests
\*
\* The limiter takes no lock either; create_knowledge_unit is a coroutine
\* without an await. Its limiter part is split statement by statement as
\* add_link is. The clock stays inside the window of the first request, so
\* nothing is pruned for age here.
\* ------------------------------------------------------------------------
LimitRec(pc, ip, kept, count, pruned) ==
    [pc |-> pc, ip |-> ip, kept |-> kept, count |-> count, pruned |-> pruned]

LimiterTaskUnchanged == UNCHANGED <<cacheVars, graphVars, accountVars, lock>>

\* a request arrives and its coroutine is scheduled
CreateRequestArrives(t, ip) ==
    /\ task[t].pc = "idle"
    /\ StoredEvents(rate_tracker) + Cardinality({u \in Tasks : task[u].pc # "idle"}) < MaxEvents
    /\ task' = [task EXCEPT ![t] = LimitRec("start", ip, << >>, 0, 0)]
    /\ UNCHANGED <<rate_tracker, clock, verdict, running, hist>>
    /\ LimiterTaskUnchanged

\* get_request_count_for_ip: the list comprehension over rate_tracker[ip]
LimiterFilter(t) ==
    /\ task[t].pc = "start"
    /\ CanRun(t)
    /\ rate_tracker' = DictPut(rate_tracker, task[t].ip, TrackerGet(rate_tracker, task[t].ip))
    /\ task' = [task EXCEPT ![t].pc = "store",
                            ![t].kept = Recent(TrackerGet(rate_tracker, task[t].ip), clock),
                            ![t].pruned = Len(TrackerGet(rate_tracker, task[t].ip))
                                          - Len(Recent(TrackerGet(rate_tracker, task[t].ip), clock))]
    /\ running' = Handover(t, "store")
    /\ UNCHANGED <<clock, verdict, hist>>
    /\ LimiterTaskUnchanged

\* get_request_count_for_ip: rate_tracker[ip] = ..., return len(rate_tracker[ip])
LimiterStore(t) ==
    /\ task[t].pc = "store"
    /\ CanRun(t)
    /\ rate_tracker' = DictPut(rate_tracker, task[t].ip, task[t].kept)
    /\ task' = [task EXCEPT ![t].pc = "decide",
                            ![t].count = Len(task[t].kept)]
    /\ running' = Handover(t, "decide")
    /\ UNCHANGED <<clock, verdict, hist>>
    /\ LimiterTaskUnchanged

\* is_under_attack, record_request_for_ip on either branch; hist counts
\* the requests each client has completed
LimiterDecide(t) ==
    /\ task[t].pc = "decide"
    /\ CanRun(t)
    /\ LET r == task[t]
           denied == IsUnderAttack(r.ip, r.count + 1)
       IN  /\ rate_tracker' = RecordRequestForIp(rate_tracker, r.ip, clock)
           /\ verdict' = Verdict(r.ip, clock, r.count, r.pruned,
                                 IF denied THEN "deny" ELSE "admit",
                                 IF denied THEN DenyRaises ELSE None)
           /\ hist' = DictPut(hist, r.ip, DictGet(hist, r.ip, 0) + 1)
    /\ task' = [task EXCEPT ![t] = Idle]
    /\ running' = Handover(t, "idle")
    /\ UNCHANGED clock
    /\ LimiterTaskUnchanged

\* time passes, also between two statements of a request
WindowTick ==
    /\ clock < REQUEST_WINDOW_SECONDS - 1
    /\ clock' = clock + 1
    /\ UNCHANGED <<rate_tracker, verdict, taskVars>>
    /\ UNCHANGED <<cacheVars, graphVars, accountVars>>

NextLimiterTasks ==
    \/ \E t \in Tasks, ip \in Ips : CreateRequestArrives(t, ip)
    \/ \E t \in Tasks : LimiterFilter(t)
    \/ \E t \in Tasks : LimiterStore(t)
    \/ \E t \in Tasks : LimiterDecide(t)
    \/ WindowTick

\* Concurrent requests to the knowledge API.
SpecLimiterTasks == InitLimiter /\ [][NextLimiterTasks]_vars

\* ------------------------------------------------------------------------
\* api/routes.py: POST /transaction/send over core/token.py UserAccount
\* ------------------------------------------------------------------------
\* The Flask view functions are plain functions; "flask run" serves each
\* request on a thread of its own.  Nothing in routes.py or token.py takes
\* a lock, so the threads interleave between any two reads or writes of
\* UserAccount.balance.  task[t] is the thread serving a request.

\* the user ids a request may name; "user3" has no account
UserIds == Users \cup {"user3"}

\* the amounts a request may carry
Amounts == {0, 50, 80}

\* the number of requests the model sends
MaxTransfers == 3

TransferRec(pc, from, to, amount, loaded, status) ==
    [pc |-> pc, from |-> from, to |-> to, amount |-> amount, loaded |-> loaded, status |-> status]

\* the sum of all balances
Total(accts) == accts["user1"] + accts["user2"]

\* send_transaction up to the call of withdraw: the status it returns
\* early with, or 0 when it goes on to perform the transaction
SendStatus(accts, from, to, amount) ==
    IF amount <= 0 THEN 400
    ELSE IF from \notin DOMAIN accts THEN 404
    ELSE IF to \notin DOMAIN accts THEN 404
    ELSE IF accts[from] < amount THEN 400
    ELSE 0

\* withdraw: if amount <= 0 or amount > self.balance: return False
WithdrawRefuses(balance, amount) == amount <= 0 \/ amount > balance

\* deposit: if amount <= 0: return False
DepositRefuses(amount) == amount <= 0

TransferUnchanged == UNCHANGED <<cacheVars, graphVars, limiterVars, lock, running, hist>>

\* a request arrives; the view validates it, looks both accounts up and
\* compares the sender's balance with the amount
SendTransactionArrives(t, from, to, amount) ==
    /\ task[t] = Idle
    /\ transfers < MaxTransfers
    /\ transfers' = transfers + 1
    /\ LET status == SendStatus(user_accounts, from, to, amount)
       IN  task' = [task EXCEPT ![t] =
                      TransferRec(IF status = 0 THEN "withdraw" ELSE "return", from, to, amount, 0, status)]
    /\ UNCHANGED user_accounts
    /\ TransferUnchanged

\* from_account.withdraw(amount): the guard; the view ignores what withdraw
\* returns and goes on to deposit either way
WithdrawGuard(t) ==
    /\ task[t].pc = "withdraw"
    /\ task' = [task EXCEPT ![t].pc =
                  IF WithdrawRefuses(user_accounts[task[t].from], task[t].amount)
                  THEN "deposit" ELSE "withdraw_load"]
    /\ UNCHANGED <<user_accounts, transfers>>
    /\ TransferUnchanged

\* self.balance -= amount: the read
WithdrawLoad(t) ==
    /\ task[t].pc = "withdraw_load"
    /\ task' = [task EXCEPT ![t].pc = "withdraw_store", ![t].loaded = user_accounts[task[t].from]]
    /\ UNCHANGED <<user_accounts, transfers>>
    /\ TransferUnchanged

\* self.balance -= amount: the write
WithdrawStore(t) ==
    /\ task[t].pc = "withdraw_store"
    /\ user_accounts' = [user_accounts EXCEPT ![task[t].from] = task[t].loaded - task[t].amount]
    /\ task' = [task EXCEPT ![t].pc = "deposit", ![t].loaded = 0]
    /\ UNCHANGED transfers
    /\ TransferUnchanged

\* to_account.deposit(amount): the guard and the read of self.balance += amount
DepositLoad(t) ==
    /\ task[t].pc = "deposit"
    /\ task' = [task EXCEPT ![t] =
                  IF DepositRefuses(task[t].amount)
                  THEN [@ EXCEPT !.pc = "return", !.status = 200]
                  ELSE [@ EXCEPT !.pc = "deposit_store", !.loaded = user_accounts[task[t].to]]]
    /\ UNCHANGED <<user_accounts, transfers>>
    /\ TransferUnchanged

\* self.balance += amount: the write; the view then answers 200
DepositStore(t) ==
    /\ task[t].pc = "deposit_store"
    /\ user_accounts' = [user_accounts EXCEPT ![task[t].to] = task[t].loaded + task[t].amount]
    /\ task' = [task EXCEPT ![t].pc = "return", ![t].loaded = 0, ![t].status = 200]
    /\ UNCHANGED transfers
    /\ TransferUnchanged

\* the response is sent and the thread is free again
SendTransactionReturns(t) ==
    /\ task[t].pc = "return"
    /\ task' = [task EXCEPT ![t] = Idle]
    /\ UNCHANGED <<user_accounts, transfers>>
    /\ TransferUnchanged

NextTransactions ==
    \/ \E t \in Tasks, from \in UserIds, to \in UserIds, amount \in Amounts :
          SendTransactionArrives(t, from, to, amount)
    \/ \E t \in Tasks : WithdrawGuard(t)
    \/ \E t \in Tasks : WithdrawLoad(t)
    \/ \E t \in Tasks : WithdrawStore(t)
    \/ \E t \in Tasks : DepositLoad(t)
    \/ \E t \in Tasks : DepositStore(t)
    \/ \E t \in Tasks : SendTransactionReturns(t)

\* Concurrent requests to POST /transaction/send.
SpecTransactions == InitGraph /\ [][NextTransactions]_vars

InitCache ==
    /\ impl \in {"lru", "local"}
    /\ CacheStart
    /\ GraphStart
    /\ LimiterStart
    /\ TaskStart
    /\ AccountStart

NextCache ==
    \/ \E k \in Keys : Get(k)
    \/ \E k \in Keys, v \in Values, ttl \in Ttls : Set(k, v, ttl)
    \/ \E k \in Keys : Delete(k)
    \/ Clear
    \/ Size
    \/ \E k \in Keys : LocalGet(k)
    \/ \E k \in Keys, v \in Values, ttl \in Ttls : LocalSet(k, v, ttl)
    \/ \E k \in Keys : LocalDelete(k)
    \/ LocalClear
    \/ \E k \in Keys : LocalContains(k)
    \/ Tick

\* The process uses one of the two cache classes.
SpecCache == InitCache /\ [][NextCache]_vars

\* ========================================================================
\* Properties of the caches (checked under SpecCache)
\* ========================================================================

\* C1: an InMemoryLRUCache built with max_size M >= 1 never stores more than
\* M entries, whatever sequence of get, set, delete, clear and size is run.
C1_SizeAtMostMaxSize == impl = "lru" => (max_size >= 1 /\ Len(cache) <= max_size)

\* a set of a new key arrived on a full cache and the cache is full again
C1_Witness ==
    /\ impl = "lru"
    /\ out.op = "set"
    /\ out.removed # {}
    /\ Len(cache) = max_size

\* C2: when set of a new key makes the entry count exceed max_size, the one
\* entry removed is the stored key whose most recent set or successful get
\* is older than that of every other stored key.
C2_EvictsLeastRecentlyUsed ==
    [][LET k == out'.key
       IN  ( /\ out'.op = "set"
             /\ Set(k, out'.value, out'.ttl)
             /\ ~HasKey(cache, k)
             /\ Len(cache) + 1 > max_size )
           => \E e \in KeysOf(cache) :
                /\ KeysOf(cache') = (KeysOf(cache) \cup {k}) \ {e}
                /\ \A j \in KeysOf(cache) \ {e} : lastUse[e] < lastUse[j]
      ]_vars

\* a set of a new key evicted one entry and kept another
C2_Witness ==
    /\ impl = "lru"
    /\ out.op = "set"
    /\ out.removed # {}
    /\ out.key \notin out.removed
    /\ Len(cache) = 2
    /\ cache[1].key # out.key

\* C3: get returns the stored value when the key is present and its expiry
\* instant has not passed; when the key is present but expired it returns
\* None and removes the entry in the same call; when the key is not stored
\* it returns None and changes nothing. Both cache classes.
C3_GetContract ==
    [][LET k == out'.key
       IN
         /\ (out'.op = "get" /\ Get(k)) =>
              IF HasKey(cache, k)
              THEN LET e == Entry(cache, k)
                       passed == e.expires_at # <<>> /\ now > e.expires_at[1]
                   IN  IF passed
                       THEN out'.ret = None /\ ~HasKey(cache', k)
                       ELSE out'.ret = e.value /\ HasKey(cache', k)
              ELSE out'.ret = None /\ cache' = cache
         /\ (out'.op = "get" /\ LocalGet(k)) =>
              IF k \in DOMAIN local_cache
              THEN IF now > local_ttl[k]
                   THEN /\ out'.ret = None
                        /\ k \notin DOMAIN local_cache'
                        /\ k \notin DOMAIN local_ttl'
                   ELSE /\ out'.ret = local_cache[k]
                        /\ k \in DOMAIN local_cache'
              ELSE /\ out'.ret = None
                   /\ local_cache' = local_cache
                   /\ local_ttl' = local_ttl
      ]_vars

\* a get found its key expired, answered None and removed the entry
C3_Witness ==
    /\ out.op = "get"
    /\ out.ret = None
    /\ out.key \in out.removed

\* C4: after set(k, v, ttl) with ttl > 0, a get(k) made before ttl seconds
\* have elapsed returns v; a get(k) made after more than ttl seconds returns
\* None and leaves k unstored, and size() returns the number of stored
\* entries, so a size() after that get does not count k.
C4_TtlScenario ==
    [][/\ ( /\ impl = "lru"
            /\ out.op = "set"
            /\ out.ttl # <<>>
            /\ out.ttl[1] > 0
            /\ out'.op = "get"
            /\ Get(out.key) )
          => /\ (now - out.at < out.ttl[1]) => out'.ret = out.value
             /\ (now - out.at > out.ttl[1]) => (out'.ret = None /\ ~HasKey(cache', out.key))
       /\ Size => (out'.ret = Cardinality(KeysOf(cache')) /\ out'.ret = Len(cache'))
      ]_vars

\* a get made more than ttl seconds after its set has answered None
C4_Witness ==
    /\ impl = "lru"
    /\ out.op = "get"
    /\ out.ret = None
    /\ out.key \in out.removed
    /\ out.at >= 2

\* C5: a successful get(k) marks k most recently used: in a full cache with
\* max_size >= 2, get(k) immediately followed by set of a new key does not
\* evict k; it evicts the least recently used of the other entries.
C5_GetRefreshesRecency ==
    [][LET k == out'.key
       IN  ( /\ impl = "lru"
             /\ out.op = "get"
             /\ out.ret # None
             /\ max_size >= 2
             /\ Len(cache) = max_size
             /\ out'.op = "set"
             /\ ~HasKey(cache, k)
             /\ Set(k, out'.value, out'.ttl) )
           => /\ HasKey(cache', out.key)
              /\ \E e \in KeysOf(cache) \ {out.key} :
                   /\ KeysOf(cache') = (KeysOf(cache) \cup {k}) \ {e}
                   /\ \A j \in KeysOf(cache) \ {out.key, e} : lastUse[e] < lastUse[j]
      ]_vars

\* the entry just read sits last in the order while an older one is first
C5_Witness ==
    /\ impl = "lru"
    /\ out.op = "get"
    /\ out.ret # None
    /\ Len(cache) = max_size
    /\ max_size >= 2
    /\ lastUse[out.key] = max_size

\* ========================================================================
\* Properties of the graph
\* ========================================================================
EdgesOf(g, f, t) == {<<i, n>> \in (1..Len(g)) \X (1..MaxLinks + 1) :
                        /\ n <= Len(g[i].links)
                        /\ g[i].from = f
                        /\ g[i].links[n].to = t}

\* C6 (SpecGraph): add_link(from, to, w) returns True exactly when
\* 0.0 <= w <= 1.0, both bounds included; for any other w it returns False
\* and ku_links is exactly as before.
C6_AddLinkWeightDomain ==
    [][LET w == reply'.weight
       IN  (reply'.op = "add_link" /\ AddLinkCall(reply'.from, reply'.to, w)) =>
              /\ (reply'.status = 1) <=> (0 <= w /\ w <= 10)
              /\ reply'.status \in {0, 1}
              /\ ~(0 <= w /\ w <= 10) => ku_links' = ku_links
      ]_vars

\* add_link has accepted the weights 0.0 and 1.0 and now rejects 1.1,
\* leaving both edges as they were
C6_Witness ==
    /\ reply.op = "add_link"
    /\ reply.status = 0
    /\ reply.weight = 11
    /\ \E pr \in Ids \X Ids : lastWeight[pr] = <<0>> /\ Cardinality(EdgesOf(ku_links, pr[1], pr[2])) = 1
    /\ \E pr \in Ids \X Ids : lastWeight[pr] = <<10>> /\ Cardinality(EdgesOf(ku_links, pr[1], pr[2])) = 1

\* C7 (SpecGraph): after any sequence of add_link calls there is at most one
\* edge for each ordered pair (from_id, to_id), and its weight is the weight
\* of the last successful add_link for the pair.
C7_OneEdgePerPair ==
    /\ \A i \in 1..Len(ku_links), j \in 1..Len(ku_links) :
          ku_links[i].from = ku_links[j].from => i = j
    /\ \A f \in Ids, t \in Ids :
          IF lastWeight[<<f, t>>] = << >>
          THEN EdgesOf(ku_links, f, t) = {}
          ELSE /\ Cardinality(EdgesOf(ku_links, f, t)) = 1
               /\ \A e \in EdgesOf(ku_links, f, t) :
                     ku_links[e[1]].links[e[2]].weight = lastWeight[<<f, t>>][1]

\* a second add_link for a pair has replaced the weight of its edge
C7_Witness ==
    /\ reply.op = "add_link"
    /\ reply.status = 1
    /\ reply.msg = "Updated"
    /\ Cardinality(EdgesOf(ku_links, reply.from, reply.to)) = 1

\* C8 (SpecGraphApi): a link request with from_id = to_id is rejected
\* whatever its weight and leaves ku_links unchanged, so no graph reached
\* through the API holds an edge from an identifier to itself.
C8_SelfLoopRejected ==
    [][/\ ( /\ reply'.op = "link"
            /\ reply'.from = reply'.to
            /\ LinkKnowledgeUnits(reply'.from, reply'.to, reply'.weight) )
          => /\ reply'.status \in {400, 422}
             /\ ku_links' = ku_links
       /\ \A id \in Ids : EdgesOf(ku_links', id, id) = {}
      ]_vars

\* a self-link with a valid weight was answered 400 on a non-empty graph
C8_Witness ==
    /\ reply.op = "link"
    /\ reply.from = reply.to
    /\ reply.weight \in {0, 10}
    /\ reply.status = 400
    /\ ku_links # << >>

C10_GetAllLinksIsCopy ==
    [][/\ ( /\ held.what = "get_all_links"
            /\ held' = held
            /\ reply'.op = "add_link"
            /\ AddLinkCall(reply'.from, reply'.to, reply'.weight) )
          => Deref(held', ku_links') = Deref(held, ku_links)
       /\ CallerClears => ku_links' = ku_links
      ]_vars

\* ------------------------------------------------------------------------
\* Claims: caches, delete and the default time to live (SpecCache)
\* ------------------------------------------------------------------------

\* C19 as stated: delete, in both cache classes, removes the entry when it
\* is present, returns true exactly when the key was present before the
\* call and false otherwise, and leaves every other entry unchanged.
C19_DeleteReturnsWhetherPresent ==
    [][LET k == out'.key
       IN
         /\ (out'.op = "delete" /\ Delete(k)) =>
              /\ out'.ret = PyBool(HasKey(cache, k))
              /\ cache' = SelectSeq(cache, LAMBDA e : e.key # k)
         /\ (out'.op = "delete" /\ LocalDelete(k)) =>
              /\ out'.ret = PyBool(k \in DOMAIN local_cache)
              /\ local_cache' = DictDel(local_cache, k)
      ]_vars

\* C19 as the code has it: delete, in both cache classes, removes the entry
\* when it is present and leaves every other entry (and, in LocalCache,
\* every other expiry) unchanged; LocalCache.delete returns True exactly
\* when the key was present before the call and False otherwise, while
\* InMemoryLRUCache.delete returns None whether or not the key was present.
C19_DeleteContract ==
    [][LET k == out'.key
       IN
         /\ (out'.op = "delete" /\ Delete(k)) =>
              /\ out'.ret = None
              /\ cache' = SelectSeq(cache, LAMBDA e : e.key # k)
         /\ (out'.op = "delete" /\ LocalDelete(k)) =>
              /\ out'.ret = PyBool(k \in DOMAIN local_cache)
              /\ local_cache' = DictDel(local_cache, k)
              /\ local_ttl' = DictDel(local_ttl, k)
      ]_vars

\* a delete of a missing key answered False and left the two stored
\* entries alone
C19_Witness ==
    /\ impl = "local"
    /\ out.op = "delete"
    /\ out.ret = "False"
    /\ out.removed = {}
    /\ Cardinality(DOMAIN local_cache) = 2

\* C20 as stated: after set(key, value) without a ttl, in both cache
\* classes, get(key) returns the value until the configured default
\* duration has elapsed and returns None afterwards.
C20_SetWithoutTtlUsesDefault ==
    [][( /\ out.op = "set"
         /\ out.ttl = <<>>
         /\ out'.op = "get"
         /\ (Get(out.key) \/ LocalGet(out.key)) )
       => /\ (now - out.at < default_ttl) => out'.ret = out.value
          /\ (now - out.at > default_ttl) => out'.ret = None
      ]_vars

\* C20 as the code has it: LocalCache.set without a ttl gives the entry the
\* default_ttl the cache was constructed with, so get returns the value
\* while no more than default_ttl has elapsed and None (removing the entry)
\* afterwards; InMemoryLRUCache has no default and set without a ttl stores
\* an entry that never expires, so get returns the value at every later
\* time.
C20_SetWithoutTtl ==
    [][/\ ( /\ out.op = "set"
            /\ out.ttl = <<>>
            /\ out'.op = "get"
            /\ LocalGet(out.key) )
          => /\ (now - out.at <= default_ttl) => out'.ret = out.value
             /\ (now - out.at > default_ttl) =>
                    (out'.ret = None /\ out.key \notin DOMAIN local_cache')
       /\ ( /\ out.op = "set"
            /\ out.ttl = <<>>
            /\ out'.op = "get"
            /\ Get(out.key) )
          => /\ out'.ret = out.value
             /\ HasKey(cache', out.key)
      ]_vars

\* the default duration has passed since a LocalCache.set without a ttl and
\* the entry is still stored, waiting for the get that removes it
C20_Witness ==
    /\ impl = "local"
    /\ out.op = "set"
    /\ out.ttl = <<>>
    /\ now - out.at > default_ttl
    /\ out.key \in DOMAIN local_cache
    /\ local_ttl[out.key] = out.at + default_ttl

\* ========================================================================
\* Properties of the request limiter (checked under SpecLimiter)
\* ========================================================================

\* the stored timestamps of a client that are less than one window old
InWindowCount(rt, ip, t) ==
    LET events == TrackerGet(rt, ip)
    IN  Cardinality({i \in 1..Len(events) : events[i] > t - REQUEST_WINDOW_SECONDS})

\* a client that has called once a second since second 0: n calls so far
OncePerSecond(n) == [i \in 1..n |-> i - 1]

\* C11: a request is denied if and only if the client's recorded requests
\* still inside the window, counted together with the current request, are
\* strictly more than the maximum per window; a client calling at seconds
\* 0, 1, 2, ... inside one window is admitted until it has made the maximum
\* number of calls and denied on the next (maximum 3: admit, admit, admit,
\* deny).
C11_DenyIffOverMaximum ==
    [][LET ip == verdict'.ip
       IN  (verdict'.result # "init" /\ CreateKnowledgeUnit(ip))
           => /\ verdict'.result = "deny"
                    <=> InWindowCount(rate_tracker, ip, clock) + 1 > MAX_REQUESTS_PER_WINDOW
              /\ verdict'.result \in {"admit", "deny"}
              /\ \A n \in 0..MAX_REQUESTS_PER_WINDOW :
                   ( /\ n < REQUEST_WINDOW_SECONDS
                     /\ clock = n
                     /\ TrackerGet(rate_tracker, ip) = OncePerSecond(n) )
                   => verdict'.result = IF n < MAX_REQUESTS_PER_WINDOW THEN "admit" ELSE "deny"
      ]_vars

\* the call after the maximum number of admitted calls, one a second, was
\* denied
C11_Witness ==
    /\ verdict.result = "deny"
    /\ verdict.at = MAX_REQUESTS_PER_WINDOW
    /\ verdict.count = MAX_REQUESTS_PER_WINDOW
    /\ rate_tracker[verdict.ip] = OncePerSecond(MAX_REQUESTS_PER_WINDOW + 1)

\* C12: every request appends its timestamp to the client's list, admitted
\* or denied; a client whose in-window count of attempts is at or above
\* the maximum is denied, and its denied attempt is counted by its next
\* request, so it stays denied while it keeps calling inside the window.
C12_DeniedAttemptsAreRecorded ==
    [][LET ip == verdict'.ip
       IN  (verdict'.result # "init" /\ CreateKnowledgeUnit(ip))
           => /\ rate_tracker'[ip] = Append(Recent(TrackerGet(rate_tracker, ip), clock), clock)
              /\ InWindowCount(rate_tracker', ip, clock) = InWindowCount(rate_tracker, ip, clock) + 1
              /\ InWindowCount(rate_tracker, ip, clock) >= MAX_REQUESTS_PER_WINDOW
                   => /\ verdict'.result = "deny"
                      /\ InWindowCount(rate_tracker', ip, clock) > MAX_REQUESTS_PER_WINDOW
              /\ (verdict.result = "deny" /\ verdict.ip = ip /\ verdict.at = clock)
                   => verdict'.result = "deny"
      ]_vars

\* a second denial in a row: the first denied attempt was counted
C12_Witness ==
    /\ verdict.result = "deny"
    /\ verdict.count = MAX_REQUESTS_PER_WINDOW + 1
    /\ Len(rate_tracker[verdict.ip]) = MAX_REQUESTS_PER_WINDOW + 2
    /\ rate_tracker[verdict.ip][MAX_REQUESTS_PER_WINDOW + 2] = clock

\* C13: a request is admitted as soon as fewer than the maximum of the
\* client's earlier requests are still inside the window, whether or not
\* the client was denied before; after a full window without a request the
\* next request is admitted and is the only one left in the list; a client
\* that called at seconds 0, 1, ..., maximum (the last call denied) is
\* admitted one second after the window of its first call has closed
\* (maximum 3, window 60 s: calls at 0, 1, 2, 3, admitted again at 61).
C13_AdmittedAgainAfterWindow ==
    [][LET ip == verdict'.ip
           events == TrackerGet(rate_tracker, ip)
       IN  (verdict'.result # "init" /\ CreateKnowledgeUnit(ip))
           => /\ InWindowCount(rate_tracker, ip, clock) < MAX_REQUESTS_PER_WINDOW
                   => verdict'.result = "admit"
              /\ (\A i \in 1..Len(events) : clock - events[i] >= REQUEST_WINDOW_SECONDS)
                   => /\ verdict'.result = "admit"
                      /\ rate_tracker'[ip] = <<clock>>
              /\ ( /\ events = OncePerSecond(MAX_REQUESTS_PER_WINDOW + 1)
                   /\ clock = REQUEST_WINDOW_SECONDS + 1 )
                   => verdict'.result = "admit"
      ]_vars

\* the client denied at second 3 has just been admitted at the second
\* after its first window closed; its calls at seconds 0 and 1 were pruned
C13_Witness ==
    /\ verdict.result = "admit"
    /\ verdict.at = REQUEST_WINDOW_SECONDS + 1
    /\ verdict.count = MAX_REQUESTS_PER_WINDOW - 1
    /\ rate_tracker[verdict.ip] =
         Append([i \in 1..(MAX_REQUESTS_PER_WINDOW - 1) |-> i + 1], REQUEST_WINDOW_SECONDS + 1)

\* C14 as stated: after a request at time now the client's list holds no
\* timestamp older than now - window, and only timestamps strictly older
\* than now - window are pruned: one equal to now - window is kept and
\* counted.
C14_PrunesStrictlyOlder ==
    [][LET ip == verdict'.ip
           events == TrackerGet(rate_tracker, ip)
           bound == clock - REQUEST_WINDOW_SECONDS
       IN  (verdict'.result # "init" /\ CreateKnowledgeUnit(ip))
           => /\ \A i \in 1..Len(rate_tracker'[ip]) : rate_tracker'[ip][i] >= bound
              /\ rate_tracker'[ip] = Append(SelectSeq(events, LAMBDA t : t >= bound), clock)
              /\ verdict'.count = Cardinality({i \in 1..Len(events) : events[i] >= bound})
      ]_vars

\* C14 as the code has it: after a request at time now the client's list
\* holds no timestamp older than now - window and none equal to it: every
\* timestamp t with now - t >= window is pruned, so an event whose
\* timestamp equals now - window is dropped and no longer counted; the
\* newer timestamps are kept, in order, and counted.
C14_PrunesAtWindowAge ==
    [][LET ip == verdict'.ip
           events == TrackerGet(rate_tracker, ip)
           bound == clock - REQUEST_WINDOW_SECONDS
       IN  (verdict'.result # "init" /\ CreateKnowledgeUnit(ip))
           => /\ \A i \in 1..Len(rate_tracker'[ip]) : rate_tracker'[ip][i] > bound
              /\ rate_tracker'[ip] = Append(SelectSeq(events, LAMBDA t : t > bound), clock)
              /\ verdict'.count = Cardinality({i \in 1..Len(events) : events[i] > bound})
              /\ verdict'.pruned = Cardinality({i \in 1..Len(events) : events[i] <= bound})
      ]_vars

\* a request exactly one window after the client's first one: the
\* timestamp 0 was pruned, the timestamp 1 was kept
C14_Witness ==
    /\ verdict.result = "admit"
    /\ verdict.at = REQUEST_WINDOW_SECONDS
    /\ verdict.pruned = 1
    /\ verdict.count = 1
    /\ rate_tracker[verdict.ip] = <<1, REQUEST_WINDOW_SECONDS>>

\* C15: a client the limiter has never seen counts as a client with no
\* earlier request: get_request_count_for_ip answers 0 for it, its first
\* request is admitted without any exception, whatever the other clients
\* have done, and leaves exactly its own timestamp in a new list.
C15_UnseenKeyHasNoEvents ==
    [][/\ \A ip \in Ips \ DOMAIN rate_tracker :
            /\ GetRequestCountForIp(rate_tracker, ip, clock) = 0
            /\ GetRequestCountTracker(rate_tracker, ip, clock)[ip] = << >>
       /\ LET ip == verdict'.ip
          IN  ( /\ verdict'.result # "init"
                /\ CreateKnowledgeUnit(ip)
                /\ ip \notin DOMAIN rate_tracker )
              => /\ verdict'.count = 0
                 /\ verdict'.result = "admit"
                 /\ verdict'.raised = None
                 /\ rate_tracker'[ip] = <<clock>>
                 /\ DOMAIN rate_tracker' = DOMAIN rate_tracker \cup {ip}
      ]_vars

\* the first request of a client, made while another client is over the
\* maximum
C15_Witness ==
    /\ verdict.result = "admit"
    /\ verdict.count = 0
    /\ verdict.pruned = 0
    /\ rate_tracker[verdict.ip] = <<clock>>
    /\ \E other \in DOMAIN rate_tracker \ {verdict.ip} :
         InWindowCount(rate_tracker, other, clock) > MAX_REQUESTS_PER_WINDOW

\* ========================================================================
\* Properties under concurrent callers
\* ========================================================================

\* the tasks that are inside the body of a cache method
InBody(t) == task[t].pc \in {"body", "evict", "release"}

\* C16 (SpecCacheTasks): every InMemoryLRUCache method holds the one lock
\* from before its first statement until after its last, so at most one
\* task is inside a body; a task entering a body finds the cache exactly as
\* the methods run one after another, in the order the lock was taken,
\* would have left it, with at most max_size entries; and a task leaving a
\* body has produced the cache and the return value of that sequential
\* run. No task sees the cache between the insertion and the eviction of
\* another task's set.
C16_LockMakesMethodsAtomic ==
    /\ \A t \in Tasks : InBody(t) => lock = t
    /\ \A t \in Tasks : task[t].pc = "body" =>
          /\ cache = hist
          /\ Len(cache) <= max_size
    /\ \A t \in Tasks : task[t].pc = "release" =>
          /\ cache = hist
          /\ Len(cache) <= max_size
          /\ task[t].ret = task[t].want
    /\ lock = "free" => (cache = hist /\ Len(cache) <= max_size)

\* one task is between the insertion and the eviction of its set, the
\* cache holds max_size + 1 entries, and the other task is waiting for the
\* lock to read the size
C16_Witness ==
    /\ \E t \in Tasks, u \in Tasks :
         /\ t # u
         /\ task[t].pc = "evict"
         /\ task[u].pc = "acquire"
         /\ task[u].op = "size"
    /\ Len(cache) = max_size + 1
    /\ lock # "free"

\* the links stored from f to to, wherever they are in the list of f
LinksTo(g, f, to) ==
    IF f \notin Sources(g) THEN {}
    ELSE LET l == g[SourceIndex(g, f)].links IN {n \in 1..Len(l) : l[n].to = to}

\* C17 (SpecGraphTasks): whatever the order in which the event loop runs
\* concurrent add_link calls on pairs that share a source or a node, the
\* graph never holds two edges for the same ordered pair, and every pair
\* some call has linked still has its edge, carrying the weight of the
\* last call that wrote it.
C17_ConcurrentAddLink ==
    /\ \A f \in Ids, to \in Ids : Cardinality(LinksTo(ku_links, f, to)) <= 1
    /\ \A f \in Ids, to \in Ids :
          lastWeight[<<f, to>>] # << >>
            => \E n \in LinksTo(ku_links, f, to) :
                 ku_links[SourceIndex(ku_links, f)].links[n].weight = lastWeight[<<f, to>>][1]

\* two requests for the same pair are in flight: one has found no edge and
\* is about to append, the other has not started, and another edge from
\* the same source is already stored
C17_Witness ==
    \E t \in Tasks, u \in Tasks :
        /\ t # u
        /\ task[t].pc = "write"
        /\ task[t].idx = 0
        /\ task[u].pc = "start"
        /\ task[u].from = task[t].from
        /\ task[u].to = task[t].to
        /\ \E to \in Ids \ {task[t].to} : LinksTo(ku_links, task[t].from, to) # {}

\* C18 (SpecLimiterTasks): whatever the order in which the event loop runs
\* concurrent requests of the same client, no recorded request is lost and
\* none is counted twice: once k requests of a client, all inside one
\* window, have completed and none is in progress, the client's list
\* holds exactly k timestamps and its in-window count is k.
C18_ConcurrentRequestsCounted ==
    (\A t \in Tasks : task[t].pc \in {"idle", "start"})
      => \A ip \in Ips :
           /\ Len(TrackerGet(rate_tracker, ip)) = DictGet(hist, ip, 0)
           /\ InWindowCount(rate_tracker, ip, clock) = DictGet(hist, ip, 0)

\* two requests of one client are in flight, one about to record and the
\* other not started, after the client has completed the maximum
C18_Witness ==
    \E t \in Tasks, u \in Tasks :
        /\ t # u
        /\ task[t].pc = "decide"
        /\ task[u].pc = "start"
        /\ task[u].ip = task[t].ip
        /\ task[t].count = MAX_REQUESTS_PER_WINDOW
        /\ DictGet(hist, task[t].ip, 0) = MAX_REQUESTS_PER_WINDOW

\* ========================================================================
\* Further properties of the request limiter (SpecLimiter)
\* ========================================================================

\* C21: a request that pushes the client's in-window count over the
\* threshold is recorded and ends with HTTPException(429); the deny branch
\* never ends in another, unhandled exception.
C21_DenyEndsWith429 ==
    [][LET ip == verdict'.ip
       IN  ( /\ verdict'.result = "deny"
             /\ CreateKnowledgeUnit(ip) )
           => /\ rate_tracker'[ip] = Append(Recent(TrackerGet(rate_tracker, ip), clock), clock)
              /\ verdict'.raised = "HTTPException(429)"
      ]_vars

\* C25: create_knowledge_unit applies the threshold of its own module,
\* MAX_REQUESTS_IN_WINDOW_API: a request is denied exactly when the
\* client's in-window count including that request exceeds it.
C25_EndpointThresholdApplied ==
    [][LET ip == verdict'.ip
       IN  ( /\ verdict'.result # "init"
             /\ CreateKnowledgeUnit(ip) )
           => ( verdict'.result = "deny"
                  <=> InWindowCount(rate_tracker, ip, clock) + 1 > MAX_REQUESTS_IN_WINDOW_API )
      ]_vars

\* C29: a request of one client leaves the list of every other client as
\* it was, stale timestamps included, and adds no other client; its
\* outcome is the one computed from its own list and the clock alone.
C29_ClientsAreIsolated ==
    [][LET ip == verdict'.ip
       IN  ( /\ verdict'.result # "init"
             /\ CreateKnowledgeUnit(ip) )
           => /\ \A other \in (DOMAIN rate_tracker) \ {ip} :
                    /\ other \in DOMAIN rate_tracker'
                    /\ rate_tracker'[other] = rate_tracker[other]
              /\ DOMAIN rate_tracker' = DOMAIN rate_tracker \cup {ip}
              /\ LET own == [j \in {ip} \cap DOMAIN rate_tracker |-> rate_tracker[j]]
                 IN  /\ verdict'.count = GetRequestCountForIp(own, ip, clock)
                     /\ verdict'.result =
                          IF IsUnderAttack(ip, GetRequestCountForIp(own, ip, clock) + 1)
                          THEN "deny" ELSE "admit"
                     /\ rate_tracker'[ip] = CreateTracker(own, ip, clock)[ip]
      ]_vars

\* a client was admitted while the other client's list, over the maximum
\* and by now wholly outside the window, stayed as it was
C29_Witness ==
    /\ verdict.result = "admit"
    /\ \E other \in DOMAIN rate_tracker \ {verdict.ip} :
         /\ Len(rate_tracker[other]) > MAX_REQUESTS_PER_WINDOW
         /\ InWindowCount(rate_tracker, other, clock) = 0

\* ========================================================================
\* Further properties of InMemoryLRUCache (SpecCache)
\* ========================================================================

\* C22: an entry stored with ttl=None never expires. However late, get
\* returns its value and keeps it; and the entry leaves the cache, or
\* changes, only in a delete of its key, a clear, or a set that overwrites
\* it or evicts it.
C22_NoTtlNeverExpires ==
    [][impl = "lru" =>
       /\ LET k == out'.key
          IN  ( /\ out'.op = "get"
                /\ Get(k)
                /\ HasKey(cache, k)
                /\ Entry(cache, k).ttl = <<>> )
              => /\ out'.ret = Entry(cache, k).value
                 /\ HasKey(cache', k)
                 /\ Entry(cache', k) = Entry(cache, k)
       /\ \A k \in KeysOf(cache) :
            Entry(cache, k).ttl = <<>>
              => \/ HasKey(cache', k) /\ Entry(cache', k) = Entry(cache, k)
                 \/ out'.op = "delete" /\ out'.key = k /\ Delete(k)
                 \/ out'.op = "clear" /\ Clear
                 \/ /\ out'.op = "set"
                    /\ Set(out'.key, out'.value, out'.ttl)
                    /\ (out'.key = k \/ k \in out'.removed)
      ]_vars

\* at the last instant of the clock a get has just returned the value of an
\* entry without ttl, while the other stored entry is past its expiry
C22_Witness ==
    /\ impl = "lru"
    /\ now = MaxTime
    /\ out.op = "get"
    /\ out.at = MaxTime
    /\ out.ret # None
    /\ HasKey(cache, out.key)
    /\ Entry(cache, out.key).ttl = <<>>
    /\ \E j \in KeysOf(cache) : IsExpired(Entry(cache, j), now)

\* C23: a set removes at most one other entry, never the entry it has just
\* stored, and none when the entries after the insertion are within
\* max_size; with that single eviction the cache is within max_size again.
C23_SetEvictsAtMostOne ==
    [][LET k == out'.key
           after == KeysOf(cache) \cup {k}
       IN  ( /\ out'.op = "set"
             /\ Set(k, out'.value, out'.ttl) )
           => /\ Cardinality(after \ KeysOf(cache')) <= 1
              /\ KeysOf(cache') \subseteq after
              /\ HasKey(cache', k)
              /\ Entry(cache', k).value = out'.value
              /\ Cardinality(after) <= max_size => KeysOf(cache') = after
              /\ Cardinality(after) > max_size => Cardinality(after \ KeysOf(cache')) = 1
              /\ Len(cache') <= max_size
              /\ Len(cache') = Cardinality(KeysOf(cache'))
      ]_vars

\* a set has stored its key as the newest entry of a cache that is full
\* again after one eviction
C23_Witness ==
    /\ impl = "lru"
    /\ out.op = "set"
    /\ Cardinality(out.removed) = 1
    /\ Len(cache) = max_size
    /\ cache[Len(cache)].key = out.key
    /\ cache[Len(cache)].value = out.value

\* C26: an entry past its expiry that has not been read since stays in the
\* cache: the passing of time removes nothing, size counts every stored
\* entry, expired or not, and a set of a new key into a full cache evicts
\* the first (least recently used) entry whether or not that entry is live
\* and whether or not an expired entry is stored behind it.
C26_ExpiredEntriesStayStored ==
    [][impl = "lru" =>
       /\ Tick => cache' = cache
       /\ (out'.op = "size" /\ Size)
            => /\ out'.ret = Len(cache)
               /\ out'.ret >= Cardinality({i \in 1..Len(cache) : IsExpired(cache[i], now)})
               /\ cache' = cache
       /\ LET k == out'.key
          IN  ( /\ out'.op = "set"
                /\ Set(k, out'.value, out'.ttl)
                /\ ~HasKey(cache, k)
                /\ Len(cache) = max_size )
              => /\ out'.removed = {cache[1].key}
                 /\ \A i \in 2..Len(cache) : cache'[i - 1] = cache[i]
                 /\ cache'[Len(cache')].key = k
      ]_vars

\* size has just counted a full cache whose least recently used entry is
\* live and whose other entry is past its expiry
C26_Witness ==
    /\ impl = "lru"
    /\ out.op = "size"
    /\ out.at = now
    /\ out.ret = max_size
    /\ Len(cache) = max_size
    /\ ~IsExpired(cache[1], now)
    /\ \E i \in 2..Len(cache) : IsExpired(cache[i], now)

\* C27: set on a key that is already stored replaces its value, ttl and
\* expiry, puts the entry last (most recently used), leaves the number of
\* entries and the order of the others unchanged and evicts nothing; a
\* get of the key that follows before the new expiry has passed returns
\* the new value.
C27_SetOnStoredKey ==
    [][impl = "lru" =>
       /\ LET k == out'.key
          IN  ( /\ out'.op = "set"
                /\ Set(k, out'.value, out'.ttl)
                /\ HasKey(cache, k) )
              => /\ out'.replaced
                 /\ out'.removed = {}
                 /\ Len(cache') = Len(cache)
                 /\ DelKey(cache', k) = DelKey(cache, k)
                 /\ cache'[Len(cache')] =
                      [key |-> k, value |-> out'.value, ttl |-> out'.ttl,
                       expires_at |-> IF out'.ttl # <<>> THEN <<now + out'.ttl[1]>> ELSE <<>>]
       /\ ( /\ out.op = "set"
            /\ out.replaced
            /\ out'.op = "get"
            /\ Get(out.key)
            /\ (out.ttl = <<>> \/ now <= out.at + out.ttl[1]) )
          => out'.ret = out.value
      ]_vars

\* a set has just overwritten a key of a full cache: nothing was evicted
\* and the entry, with the new value, is the last one
C27_Witness ==
    /\ impl = "lru"
    /\ out.op = "set"
    /\ out.replaced
    /\ out.removed = {}
    /\ Len(cache) = max_size
    /\ cache[Len(cache)].key = out.key
    /\ cache[Len(cache)].value = out.value
    /\ cache[Len(cache)].ttl = out.ttl

\* ------------------------------------------------------------------------
\* Further properties of the graph (SpecGraph)
\* ------------------------------------------------------------------------
\* the sources of g in the order the dict iterates them
SourceOrder(g) == [i \in 1..Len(g) |-> g[i].from]

\* the targets of the links of source f in list order; << >> without entry
TargetOrder(g, f) ==
    IF f \notin Sources(g) THEN << >>
    ELSE LET l == g[SourceIndex(g, f)].links IN [n \in 1..Len(l) |-> l[n].to]

\* C24 (SpecGraph): the outgoing links of a source are listed in the order
\* in which their targets were first linked, and get_all_links lists the
\* sources in the order of their first successful link: a successful
\* add_link of a new pair puts the target at the end of the source's list
\* (and a new source at the end of the sources), a successful add_link of
\* an existing pair moves nothing, and no other call changes any order.
C24_LinksInFirstLinkedOrder ==
    [][LET f == reply'.from
           t == reply'.to
       IN  /\ (reply'.op = "add_link" /\ reply'.status = 1 /\ AddLinkCall(f, t, reply'.weight)) =>
                 /\ SourceOrder(ku_links') =
                       IF f \in Sources(ku_links) THEN SourceOrder(ku_links)
                       ELSE Append(SourceOrder(ku_links), f)
                 /\ TargetOrder(ku_links', f) =
                       IF lastWeight[<<f, t>>] # << >> THEN TargetOrder(ku_links, f)
                       ELSE Append(TargetOrder(ku_links, f), t)
                 /\ \A o \in Ids \ {f} : TargetOrder(ku_links', o) = TargetOrder(ku_links, o)
           /\ ~(reply'.op = "add_link" /\ reply'.status = 1) =>
                 /\ SourceOrder(ku_links') = SourceOrder(ku_links)
                 /\ \A o \in Ids : TargetOrder(ku_links', o) = TargetOrder(ku_links, o)
           /\ (reply'.op = "get_links_from" /\ GetLinksFromCall(f) /\ f \in Sources(ku_links)) =>
                 reply'.body = <<ku_links[SourceIndex(ku_links, f)].links>>
      ]_vars

\* the weight of the first of two links of a source has just been updated
\* and the link is still the first
C24_Witness ==
    /\ reply.op = "add_link"
    /\ reply.status = 1
    /\ reply.msg = "Updated"
    /\ Len(TargetOrder(ku_links, reply.from)) = 2
    /\ TargetOrder(ku_links, reply.from)[1] = reply.to
    /\ held.what = "get_all_links"
    /\ SourceOrder(Deref(held, ku_links)) = <<reply.from>>

\* the ordered pairs that have an edge in g
LinkedPairs(g) == UNION {{<<g[i].from, g[i].links[n].to>> : n \in 1..Len(g[i].links)} : i \in 1..Len(g)}

\* every edge of g other than (f, t) is in h at the same place, with the
\* same weight
OtherEdgesKept(g, h, f, t) ==
    \A i \in 1..Len(g) :
       /\ i <= Len(h)
       /\ h[i].from = g[i].from
       /\ \A n \in 1..Len(g[i].links) :
             (g[i].from # f \/ g[i].links[n].to # t) =>
                /\ n <= Len(h[i].links)
                /\ h[i].links[n] = g[i].links[n]

\* C28 (SpecGraph): a successful add_link(a, b, w) changes only the edge
\* (a, b): it gives that edge the weight w, every other edge keeps its
\* weight and its position and no other pair becomes linked; and no call of
\* add_link, get_links_from or get_all_links removes an edge, so the set of
\* linked pairs only grows.
C28_AddLinkTouchesOneEdge ==
    [][LET f == reply'.from
           t == reply'.to
       IN  IF reply'.op = "add_link" /\ reply'.status = 1
           THEN AddLinkCall(f, t, reply'.weight) =>
                   /\ OtherEdgesKept(ku_links, ku_links', f, t)
                   /\ LinkedPairs(ku_links') = LinkedPairs(ku_links) \cup {<<f, t>>}
                   /\ \A e \in EdgesOf(ku_links', f, t) :
                         ku_links'[e[1]].links[e[2]].weight = reply'.weight
           ELSE ku_links' = ku_links
      ]_vars

\* a second target has just been linked from a source whose first link is
\* still in the first place with the weight it was given
C28_Witness ==
    /\ reply.op = "add_link"
    /\ reply.status = 1
    /\ reply.msg = "Added"
    /\ \E i \in 1..Len(ku_links) :
          /\ ku_links[i].from = reply.from
          /\ Len(ku_links[i].links) = 2
          /\ ku_links[i].links[2] = [to |-> reply.to, weight |-> reply.weight]
          /\ ku_links[i].links[1].to # reply.to
          /\ lastWeight[<<reply.from, ku_links[i].links[1].to>>] = <<ku_links[i].links[1].weight>>
          /\ ku_links[i].links[1].weight # reply.weight

\* ------------------------------------------------------------------------
\* Properties of send_transaction (SpecTransactions)
\* ------------------------------------------------------------------------
\* C30 (SpecTransactions): under any interleaving of concurrent
\* send_transaction requests no account balance is ever negative, and
\* whenever no request is in progress the balances add up to what they
\* added up to at the start: every credit is matched by a debit of the same
\* amount and a rejected transfer changes nothing.
C30_TransfersConserveBalances ==
    /\ \A u \in Users : user_accounts[u] >= 0
    /\ (\A t \in Tasks : task[t] = Idle) =>
          Total(user_accounts) = InitialBalanceUser1 + InitialBalanceUser2

====
